---- MODULE Spec2Model ----
(***************************************************************************)
(* A model of the CV field extractor (src/extract.py).                     *)
(*                                                                         *)
(* Texts and file names are Python strings; the model works on them as     *)
(* sequences of one-character strings (Chars / Str convert).  The regular  *)
(* expressions of the source are kept as syntax trees and run by a         *)
(* backtracking matcher that lists the matches at a position in the        *)
(* priority order of Python's re module, so that findall, sub and split    *)
(* see the same first match as the code does.  The alphabet is ASCII.      *)
(***************************************************************************)
EXTENDS Integers, Sequences, FiniteSets, TLC

(***************************************************************************)
(* Characters                                                              *)
(***************************************************************************)
\* a sequence given as a function on 1..n, as the tuple of its elements
AsTuple(f) == SubSeq(f, 1, Len(f))

Chars(str) == AsTuple([p \in 1..Len(str) |-> SubSeq(str, p, p)])

\* the string of the characters cs[lo..hi], put together by halves
RECURSIVE StrRange(_, _, _)
StrRange(cs, lo, hi) ==
    IF lo > hi THEN ""
    ELSE IF lo = hi THEN cs[lo]
    ELSE StrRange(cs, lo, (lo + hi) \div 2) \o StrRange(cs, (lo + hi) \div 2 + 1, hi)
Str(cs) == StrRange(cs, 1, Len(cs))

\* the least element of a non-empty set of integers, and the set in
\* ascending order
Least(S) == CHOOSE q \in S : \A q2 \in S : q <= q2
Ascending(S) ==
    AsTuple([k \in 1..Cardinality(S) |->
                CHOOSE q \in S : Cardinality({q2 \in S : q2 < q}) = k - 1])

UpperAlphabet == Chars("ABCDEFGHIJKLMNOPQRSTUVWXYZ")
LowerAlphabet == Chars("abcdefghijklmnopqrstuvwxyz")
Uppers == {UpperAlphabet[p] : p \in 1..26}
Lowers == {LowerAlphabet[p] : p \in 1..26}
Letters == Uppers \cup Lowers
Digits == {"0", "1", "2", "3", "4", "5", "6", "7", "8", "9"}
Whitespace == {" ", "\t", "\n", "\r", "\f"}
WordChars == Letters \cup Digits \cup {"_"}

LowerOf == [c \in Uppers |-> LowerAlphabet[CHOOSE p \in 1..26 : UpperAlphabet[p] = c]]
UpperOf == [c \in Lowers |-> UpperAlphabet[CHOOSE p \in 1..26 : LowerAlphabet[p] = c]]
LowerChar(c) == IF c \in Uppers THEN LowerOf[c] ELSE c
UpperChar(c) == IF c \in Lowers THEN UpperOf[c] ELSE c

\* str.lower() and str.upper()
lower(cs) == AsTuple([p \in 1..Len(cs) |-> LowerChar(cs[p])])
upper(cs) == AsTuple([p \in 1..Len(cs) |-> UpperChar(cs[p])])

\* str.capitalize(): first character upper-cased, the rest lower-cased
capitalize(cs) ==
    AsTuple([p \in 1..Len(cs) |-> IF p = 1 THEN UpperChar(cs[p]) ELSE LowerChar(cs[p])])

\* str.title(): a letter is upper-cased when it does not follow a letter
title(cs) ==
    AsTuple([p \in 1..Len(cs) |->
                IF p = 1 \/ cs[p - 1] \notin Letters THEN UpperChar(cs[p])
                ELSE LowerChar(cs[p])])

\* sub in str, as positions: does sub occur in cs at position i
OccursAt(sub, cs, p) == p + Len(sub) - 1 <= Len(cs) /\ SubSeq(cs, p, p + Len(sub) - 1) = sub
Contains(sub, cs) == \E p \in 1..(Len(cs) + 1) : OccursAt(sub, cs, p)

\* str.replace(old, new) for a non-empty old: leftmost, non-overlapping
RECURSIVE replaceFrom(_, _, _, _)
replaceFrom(cs, old, new, p) ==
    LET at == {q \in p..Len(cs) : OccursAt(old, cs, q)}
    IN  IF at = {} THEN SubSeq(cs, p, Len(cs))
        ELSE SubSeq(cs, p, Least(at) - 1) \o new
             \o replaceFrom(cs, old, new, Least(at) + Len(old))
replace(cs, old, new) == replaceFrom(cs, old, new, 1)

\* str.strip()
RECURSIVE lstrip(_)
lstrip(cs) == IF cs # <<>> /\ Head(cs) \in Whitespace THEN lstrip(Tail(cs)) ELSE cs
RECURSIVE rstrip(_)
rstrip(cs) ==
    IF cs # <<>> /\ cs[Len(cs)] \in Whitespace THEN rstrip(SubSeq(cs, 1, Len(cs) - 1)) ELSE cs
strip(cs) == rstrip(lstrip(cs))

\* str.split(): the maximal runs of non-whitespace characters
split(cs) ==
    LET starts == Ascending({q \in 1..Len(cs) :
                                cs[q] \notin Whitespace /\ (q = 1 \/ cs[q - 1] \in Whitespace)})
        EndOf(q) == LET stops == {q2 \in q..Len(cs) : cs[q2] \in Whitespace}
                    IN  IF stops = {} THEN Len(cs) ELSE Least(stops) - 1
    IN  AsTuple([k \in 1..Len(starts) |-> SubSeq(cs, starts[k], EndOf(starts[k]))])

\* sep.join(parts)
RECURSIVE join(_, _)
join(sep, parts) ==
    IF parts = <<>> THEN <<>>
    ELSE IF Len(parts) = 1 THEN parts[1]
    ELSE parts[1] \o sep \o join(sep, Tail(parts))

(***************************************************************************)
(* Regular expressions (module re)                                         *)
(***************************************************************************)
Unbounded == 1000000

In(cs)        == [t |-> "set", cs |-> cs, neg |-> FALSE]
NotIn(cs)     == [t |-> "set", cs |-> cs, neg |-> TRUE]
Cat(rs)       == [t |-> "seq", rs |-> rs]
Alt(rs)       == [t |-> "alt", rs |-> rs]
Rep(r, lo, hi) == [t |-> "rep", r |-> r, lo |-> lo, hi |-> hi]
Star(r)       == Rep(r, 0, Unbounded)
Plus(r)       == Rep(r, 1, Unbounded)
Opt(r)        == Rep(r, 0, 1)
Group(k, r)   == [t |-> "grp", r |-> r, k |-> k]
WordBoundary  == [t |-> "wb"]
StartAnchor   == [t |-> "bol"]
\* a literal, and a literal under the (?i) flag
Lit(str)      == [t |-> "lit", cs |-> Chars(str), ic |-> FALSE]
LitI(str)     == [t |-> "lit", cs |-> lower(Chars(str)), ic |-> TRUE]

NoGroups == <<<<0, 0>>, <<0, 0>>>>

IsWordAt(s, p) == p >= 1 /\ p <= Len(s) /\ s[p] \in WordChars

\* Match(r, s, p, g): the matches of r in s that start at position p, in the
\* order in which a backtracking matcher tries them (e is the position after
\* the match, g the groups captured).  The lists of matches are walked by
\* halves, which keeps the evaluation shallow.
RECURSIVE Match(_, _, _, _)
RECURSIVE MatchSeq(_, _, _, _, _)
RECURSIVE ContinueSeq(_, _, _, _, _, _)
RECURSIVE MatchAlt(_, _, _, _, _)
RECURSIVE MatchRep(_, _, _, _, _)
RECURSIVE ContinueRep(_, _, _, _, _, _, _)

MatchSeq(rs, k, s, p, g) ==
    IF k > Len(rs) THEN <<[e |-> p, g |-> g]>>
    ELSE LET found == Match(rs[k], s, p, g)
         IN  ContinueSeq(found, 1, Len(found), rs, k + 1, s)

\* the rest of the sequence after each of found[lo..hi], in order
ContinueSeq(found, lo, hi, rs, k, s) ==
    IF lo > hi THEN <<>>
    ELSE IF lo = hi THEN MatchSeq(rs, k, s, found[lo].e, found[lo].g)
    ELSE ContinueSeq(found, lo, (lo + hi) \div 2, rs, k, s)
         \o ContinueSeq(found, (lo + hi) \div 2 + 1, hi, rs, k, s)

MatchAlt(rs, k, s, p, g) ==
    IF k > Len(rs) THEN <<>>
    ELSE Match(rs[k], s, p, g) \o MatchAlt(rs, k + 1, s, p, g)

\* greedy repetition: one more iteration is tried before stopping
MatchRep(r, n, s, p, g) ==
    (IF n < r.hi
     THEN LET found == Match(r.r, s, p, g) IN ContinueRep(found, 1, Len(found), r, n + 1, s, p)
     ELSE <<>>)
    \o (IF n >= r.lo THEN <<[e |-> p, g |-> g]>> ELSE <<>>)

\* further iterations after each of found[lo..hi], in order; an iteration
\* that matched the empty string is not repeated
ContinueRep(found, lo, hi, r, n, s, p) ==
    IF lo > hi THEN <<>>
    ELSE IF lo = hi
         THEN (IF found[lo].e > p THEN MatchRep(r, n, s, found[lo].e, found[lo].g) ELSE <<>>)
    ELSE ContinueRep(found, lo, (lo + hi) \div 2, r, n, s, p)
         \o ContinueRep(found, (lo + hi) \div 2 + 1, hi, r, n, s, p)

\* the greedy repetition of a character class: the run of characters of the
\* class from p on, at most r.hi long, then each shorter one down to r.lo
MatchRun(r, s, p, g) ==
    LET stops == {q \in p..Len(s) : (s[q] \in r.r.cs) = r.r.neg}
        run == IF stops = {} THEN Len(s) + 1 - p ELSE Least(stops) - p
        most == IF run > r.hi THEN r.hi ELSE run
    IN  AsTuple([k \in 1..(most - r.lo + 1) |-> [e |-> p + most - (k - 1), g |-> g]])

SetGroup(found, k, p) ==
    AsTuple([n \in 1..Len(found) |->
                [e |-> found[n].e, g |-> [found[n].g EXCEPT ![k] = <<p, found[n].e>>]]])

Match(r, s, p, g) ==
    CASE r.t = "set" ->
            IF p <= Len(s) /\ ((s[p] \in r.cs) # r.neg) THEN <<[e |-> p + 1, g |-> g]>> ELSE <<>>
      [] r.t = "lit" ->
            IF /\ p + Len(r.cs) - 1 <= Len(s)
               /\ (IF r.ic THEN lower(SubSeq(s, p, p + Len(r.cs) - 1))
                   ELSE SubSeq(s, p, p + Len(r.cs) - 1)) = r.cs
            THEN <<[e |-> p + Len(r.cs), g |-> g]>> ELSE <<>>
      [] r.t = "wb"  ->
            IF IsWordAt(s, p - 1) # IsWordAt(s, p) THEN <<[e |-> p, g |-> g]>> ELSE <<>>
      [] r.t = "bol" -> IF p = 1 THEN <<[e |-> p, g |-> g]>> ELSE <<>>
      [] r.t = "seq" -> MatchSeq(r.rs, 1, s, p, g)
      [] r.t = "alt" -> MatchAlt(r.rs, 1, s, p, g)
      [] r.t = "rep" -> IF r.r.t = "set" THEN MatchRun(r, s, p, g) ELSE MatchRep(r, 0, s, p, g)
      [] r.t = "grp" -> SetGroup(Match(r.r, s, p, g), r.k, p)

\* the text of group k of a match
GroupText(s, m, k) == SubSeq(s, m.g[k][1], m.g[k][2] - 1)

\* Pattern.search from position p: the leftmost match, as [b, e, g], or
\* b = 0 when there is none
search(r, s, p) ==
    LET At(b, m) == [b |-> b, e |-> m.e, g |-> m.g]
        Leftmost(starts) ==
            IF starts = {} THEN [b |-> 0, e |-> 0, g |-> NoGroups]
            ELSE At(Least(starts), Head(Match(r, s, Least(starts), NoGroups)))
    IN  Leftmost({q \in p..(Len(s) + 1) : Match(r, s, q, NoGroups) # <<>>})

\* the successive non-overlapping matches of r in s (no pattern of the
\* program matches the empty string)
RECURSIVE finditer(_, _, _)
finditer(r, s, p) ==
    LET AndAfter(m) == IF m.b = 0 THEN <<>> ELSE <<m>> \o finditer(r, s, m.e)
    IN  AndAfter(search(r, s, p))

\* Pattern.sub(repl, s)
RECURSIVE subFrom(_, _, _, _)
subFrom(r, repl, s, p) ==
    LET Replaced(m) == IF m.b = 0 THEN SubSeq(s, p, Len(s))
                       ELSE SubSeq(s, p, m.b - 1) \o repl \o subFrom(r, repl, s, m.e)
    IN  Replaced(search(r, s, p))
sub(r, repl, s) == subFrom(r, repl, s, 1)

\* Pattern.split(s)[0]
splitFirst(r, s) ==
    LET Before(m) == IF m.b = 0 THEN s ELSE SubSeq(s, 1, m.b - 1)
    IN  Before(search(r, s, 1))

\* Pattern.findall(s) of a pattern with one group: the texts of group 1
findall1(r, s) ==
    LET Texts(ms) == AsTuple([j \in 1..Len(ms) |-> GroupText(s, ms[j], 1)])
    IN  Texts(finditer(r, s, 1))
\* Pattern.findall(s) of a pattern with two groups: the pairs of texts
findall2(r, s) ==
    LET Pairs(ms) ==
            AsTuple([j \in 1..Len(ms) |-> <<GroupText(s, ms[j], 1), GroupText(s, ms[j], 2)>>])
    IN  Pairs(finditer(r, s, 1))

(***************************************************************************)
(* Precompiled patterns                                                    *)
(***************************************************************************)
Ws == In(Whitespace)
Dg == In(Digits)

\* ^\s*\d+\s*\.\s*
RE_PREFIX_NUMBER_DOT ==
    Cat(<<StartAnchor, Star(Ws), Plus(Dg), Star(Ws), In({"."}), Star(Ws)>>)
\* (?i)\bcurriculum\s+vitae\b|\bcv\b
RE_CV_ANY ==
    Alt(<<Cat(<<WordBoundary, LitI("curriculum"), Plus(Ws), LitI("vitae"), WordBoundary>>),
          Cat(<<WordBoundary, LitI("cv"), WordBoundary>>)>>)
\* \s+(?:&|:)\s+
RE_SPLIT_AND_COLON == Cat(<<Plus(Ws), Alt(<<In({"&"}), In({":"})>>), Plus(Ws)>>)
\* \s+-\s+
RE_SPLIT_DASH == Cat(<<Plus(Ws), In({"-"}), Plus(Ws)>>)
\* \(\s*\d+\s*\)
RE_PARENS_NUM == Cat(<<In({"("}), Star(Ws), Plus(Dg), Star(Ws), In({")"})>>)
\* \d+
RE_NUMBERS == Plus(Dg)
\* \s+
RE_SPACES == Plus(Ws)
\* [^A-Za-z\s]
RE_NON_ALPHA_SPACE == NotIn(Letters \cup Whitespace)

(***************************************************************************)
(* Name from the file name                                                 *)
(***************************************************************************)
\* os.path.basename: what follows the last "/"
RECURSIVE basename(_)
basename(path) ==
    IF \E p \in 1..Len(path) : path[p] = "/"
    THEN basename(SubSeq(path, (CHOOSE p \in 1..Len(path) : path[p] = "/") + 1, Len(path)))
    ELSE path

\* os.path.splitext(p)[0]: p without its extension.  The extension starts at
\* the last dot of the base name, unless only dots precede that dot.
splitext_root(path) ==
    LET dots == {p \in 1..Len(path) : path[p] = "."}
        last == CHOOSE p \in dots : \A j \in dots : j <= p
    IN  IF dots = {} THEN path
        ELSE IF \E j \in 1..(last - 1) : path[j] # "." THEN SubSeq(path, 1, last - 1)
        ELSE path

ReplaceChar(cs, old, new) ==
    AsTuple([p \in 1..Len(cs) |-> IF cs[p] = old THEN new ELSE cs[p]])

\* ws[:6]
FirstSix(ws) == IF Len(ws) > 6 THEN SubSeq(ws, 1, 6) ELSE ws
\* " ".join(w.capitalize() for w in ws)
Capitalized(ws) == join(<<" ">>, AsTuple([j \in 1..Len(ws) |-> capitalize(ws[j])]))

\* the steps of the function, innermost first: the stem of the base name,
\* without its leading number, its separators as spaces, without "cv",
\* cut at " & ", " : " and then at " - ", without numbers in parentheses,
\* numbers and what is neither a letter nor a space, its spaces squeezed
clean_person_name_from_filename(filename) ==
    LET NameOf(tokens) == IF tokens = <<>> THEN <<>> ELSE Capitalized(FirstSix(tokens))
    IN  NameOf(split(strip(
        sub(RE_SPACES, <<" ">>,
        sub(RE_NON_ALPHA_SPACE, <<" ">>,
        sub(RE_NUMBERS, <<" ">>,
        sub(RE_PARENS_NUM, <<" ">>,
        splitFirst(RE_SPLIT_DASH,
        splitFirst(RE_SPLIT_AND_COLON,
        sub(RE_CV_ANY, <<" ">>,
        ReplaceChar(ReplaceChar(ReplaceChar(
            sub(RE_PREFIX_NUMBER_DOT, <<>>, splitext_root(basename(filename))),
            "_", " "), "-", " "), ".", " ")))))))))))

(***************************************************************************)
(* Optional values: None is the empty sequence, Some(v) the sequence <<v>> *)
(***************************************************************************)
None == <<>>
Some(v) == <<v>>
Val(o) == o[1]
\* a, or b when a is None
OrElse(a, b) == IF a # None THEN a ELSE b
\* an optional sequence of characters as an optional string
StrOf(o) == IF o = None THEN None ELSE Some(Str(Val(o)))
\* a sequence of sequences of characters as a sequence of strings
StrsOf(ws) == AsTuple([k \in 1..Len(ws) |-> Str(ws[k])])

(***************************************************************************)
(* IPK                                                                     *)
(***************************************************************************)
Colon  == Opt(In({":", "-"}))
\* ([0-4][\.,][0-9]{2,3})
IpkNumber == Group(1, Cat(<<In({"0", "1", "2", "3", "4"}), In({".", ","}), Rep(Dg, 2, 3)>>))

RE_IPK_NEAR ==
    << \* (?i)\bIPK\s*[:\-]?\s*([0-4][\.,][0-9]{2,3})
       Cat(<<WordBoundary, LitI("IPK"), Star(Ws), Colon, Star(Ws), IpkNumber>>),
       \* (?i)\bGPA\s*[:\-]?\s*([0-4][\.,][0-9]{2,3})
       Cat(<<WordBoundary, LitI("GPA"), Star(Ws), Colon, Star(Ws), IpkNumber>>),
       \* (?i)\bIndeks\s+Prestasi(?:\s*Kumulatif)?\s*[:\-]?\s*([0-4][\.,][0-9]{2,3})
       Cat(<<WordBoundary, LitI("Indeks"), Plus(Ws), LitI("Prestasi"),
             Opt(Cat(<<Star(Ws), LitI("Kumulatif")>>)), Star(Ws), Colon, Star(Ws), IpkNumber>>),
       \* (?i)([0-4][\.,][0-9]{2,3})\s*(?:/|dari|out of)\s*4
       Cat(<<IpkNumber, Star(Ws), Alt(<<Lit("/"), LitI("dari"), LitI("out of")>>),
             Star(Ws), Lit("4")>>) >>

DigitValue(c) == CHOOSE n \in 0..9 : SubSeq("0123456789", n + 1, n + 1) = c

\* float(val) of a text d.dd or d.ddd (the comma already replaced), in
\* thousandths
Thousandths(val) ==
    DigitValue(val[1]) * 1000 + DigitValue(val[3]) * 100 + DigitValue(val[4]) * 10
    + (IF Len(val) >= 5 THEN DigitValue(val[5]) ELSE 0)

\* the values d.dd5 of [2, 4] whose nearest double lies above the decimal
\* midpoint, which round(x, 2) rounds up; the others it rounds down
HalfRoundsUp ==
    {2015, 2035, 2055, 2075, 2095, 2115, 2145, 2165, 2185, 2205, 2225, 2245, 2265,
     2285, 2305, 2325, 2345, 2365, 2375, 2395, 2415, 2435, 2455, 2475, 2495, 2515,
     2535, 2555, 2575, 2595, 2615, 2645, 2665, 2685, 2705, 2725, 2745, 2765, 2785,
     2805, 2825, 2845, 2865, 2875, 2895, 2915, 2935, 2955, 2975, 2995, 3015, 3035,
     3055, 3075, 3095, 3115, 3145, 3165, 3185, 3205, 3225, 3245, 3265, 3285, 3305,
     3325, 3345, 3365, 3375, 3395, 3415, 3435, 3455, 3475, 3495, 3515, 3535, 3555,
     3575, 3595, 3615, 3645, 3665, 3685, 3705, 3725, 3745, 3765, 3785, 3805, 3825,
     3845, 3865, 3875, 3895, 3915, 3935, 3955, 3975, 3995}

\* round(ipk, 2), from thousandths to hundredths
Round2(th) ==
    IF th % 10 < 5 THEN th \div 10
    ELSE IF th % 10 > 5 THEN th \div 10 + 1
    ELSE IF th \in HalfRoundsUp THEN th \div 10 + 1
    ELSE th \div 10

\* a variant without the range test
InIpkRange_any(th) == th >= 0
InIpkRange(th) == 2000 <= th /\ th <= 4000

\* the first match, in findall order, whose value passes the range test
RECURSIVE FirstIpk(_)
FirstIpk(ms) ==
    LET Rounded(ipk) == IF InIpkRange(ipk) THEN Some(Round2(ipk)) ELSE None
    IN  IF ms = <<>> THEN None
        ELSE OrElse(Rounded(Thousandths(ReplaceChar(Head(ms), ",", "."))), FirstIpk(Tail(ms)))

RECURSIVE IpkCascade(_, _)
IpkCascade(txt, k) ==
    IF k > Len(RE_IPK_NEAR) THEN None
    ELSE OrElse(FirstIpk(findall1(RE_IPK_NEAR[k], txt)), IpkCascade(txt, k + 1))

\* the IPK in hundredths, or None
extract_ipk(txt) == IpkCascade(txt, 1)

(***************************************************************************)
(* Semester                                                                *)
(***************************************************************************)
\* (1[0-2]|[1-9])
SemNumber ==
    Group(1, Alt(<<Cat(<<Lit("1"), In({"0", "1", "2"})>>), In(Digits \ {"0"})>>))

RE_SEM_NEAR ==
    << \* (?i)\bsemester\s*[:\-]?\s*(1[0-2]|[1-9])\b
       Cat(<<WordBoundary, LitI("semester"), Star(Ws), Colon, Star(Ws), SemNumber,
             WordBoundary>>),
       \* (?i)\bsem\s*[:\-]?\s*(1[0-2]|[1-9])\b
       Cat(<<WordBoundary, LitI("sem"), Star(Ws), Colon, Star(Ws), SemNumber, WordBoundary>>),
       \* (?i)\b(1[0-2]|[1-9])\b\s*(?:th|tahun)?\s*(?:semester|sem)\b
       Cat(<<WordBoundary, SemNumber, WordBoundary, Star(Ws),
             Opt(Alt(<<LitI("th"), LitI("tahun")>>)), Star(Ws),
             Alt(<<LitI("semester"), LitI("sem")>>), WordBoundary>>) >>

\* int(match) of a text of digits
RECURSIVE int(_)
int(ds) == IF ds = <<>> THEN 0 ELSE int(SubSeq(ds, 1, Len(ds) - 1)) * 10 + DigitValue(ds[Len(ds)])

InSemRange(sem) == 1 <= sem /\ sem <= 12

RECURSIVE FirstSem(_)
FirstSem(ms) ==
    LET Kept(sem) == IF InSemRange(sem) THEN Some(sem) ELSE None
    IN  IF ms = <<>> THEN None ELSE OrElse(Kept(int(Head(ms))), FirstSem(Tail(ms)))

RECURSIVE SemCascade(_, _)
SemCascade(txt, k) ==
    IF k > Len(RE_SEM_NEAR) THEN None
    ELSE OrElse(FirstSem(findall1(RE_SEM_NEAR[k], txt)), SemCascade(txt, k + 1))

extract_semester(txt) == SemCascade(txt, 1)

(***************************************************************************)
(* Jurusan                                                                 *)
(***************************************************************************)
RE_JURUSAN_LABEL ==
    << \* (?i)\b(?:Jurusan|Program\s*Studi|Prodi|Study\s*Program|Department)\s*[:\-]?\s*([^\n,\.]{3,100})
       Cat(<<WordBoundary,
             Alt(<<LitI("Jurusan"),
                   Cat(<<LitI("Program"), Star(Ws), LitI("Studi")>>),
                   LitI("Prodi"),
                   Cat(<<LitI("Study"), Star(Ws), LitI("Program")>>),
                   LitI("Department")>>),
             Star(Ws), Colon, Star(Ws),
             Group(1, Rep(NotIn({"\n", ",", "."}), 3, 100))>>),
       \* (?i)\b(S1|S2|S3|D1|D2|D3|D4)\s+([A-Za-z\s&\-/]{3,100}), on ASCII
       Cat(<<WordBoundary,
             Group(1, Alt(<<LitI("S1"), LitI("S2"), LitI("S3"), LitI("D1"), LitI("D2"),
                            LitI("D3"), LitI("D4")>>)),
             Plus(Ws),
             Group(2, Rep(In(Letters \cup Whitespace \cup {"&", "-", "/"}), 3, 100))>> ) >>

STOP_TOKENS_TAIL ==
    {"universitas", "university", "dinamika", "surabaya", "semester", "agustus", "juli",
     "juni", "mei", "oktober", "november", "desember", "september", "maret", "april",
     "tahun", "dengan", "minat", "kuat", "bidang", "yang", "sekarang", "sedang",
     "melanjutkan", "studi", "jujur", "juara", "disiplin", "smk", "smkn"}

\* the synonym table, in the order of the dictionary
MAJOR_NORMALIZE ==
    << <<"information system", "Sistem Informasi">>,
       <<"information systems", "Sistem Informasi">>,
       <<"sistem informasi", "Sistem Informasi">>,
       <<"teknik informatika", "Teknik Informatika">>,
       <<"informatika", "Teknik Informatika">>,
       <<"computer engineering", "Teknik Komputer">>,
       <<"teknik komputer", "Teknik Komputer">>,
       <<"dkv", "Desain Komunikasi Visual">>,
       <<"desain komunikasi visual", "Desain Komunikasi Visual">>,
       <<"manajemen bisnis", "Manajemen Bisnis">>,
       <<"teknik elektro", "Teknik Elektro">>,
       <<"teknik mesin", "Teknik Mesin">>,
       <<"teknik sipil", "Teknik Sipil">>,
       <<"arsitektur", "Arsitektur">> >>

SMA_TRACK == {"ipa", "ips", "bahasa"}

\* ' '.join(w.capitalize() for w in s.split())
_title(s) == Capitalized(split(s))

\* the words of the phrase before its first stop token
RECURSIVE BeforeStopToken(_)
BeforeStopToken(ws) ==
    IF ws = <<>> THEN <<>>
    ELSE IF Str(lower(Head(ws))) \in STOP_TOKENS_TAIL THEN <<>>
    ELSE <<Head(ws)>> \o BeforeStopToken(Tail(ws))

\* the value of the first synonym, in dictionary order, that occurs in low
RECURSIVE FirstSynonym(_, _)
FirstSynonym(low, k) ==
    IF k > Len(MAJOR_NORMALIZE) THEN None
    ELSE IF Contains(Chars(MAJOR_NORMALIZE[k][1]), low) THEN Some(Chars(MAJOR_NORMALIZE[k][2]))
    ELSE FirstSynonym(low, k + 1)

\* toks: the words before the first stop token; cut: the first six of
\* them, joined; the result is the synonym that occurs in cut, else its
\* title case unless that is a school track
_normalize_major_phrase(phrase) ==
    LET TitleUnlessTrack(phrase_tc) ==
            IF Str(lower(phrase_tc)) \in SMA_TRACK THEN None ELSE Some(phrase_tc)
        OfCut(cut) == OrElse(FirstSynonym(lower(cut), 1), TitleUnlessTrack(_title(cut)))
        OfTokens(toks) ==
            IF strip(join(<<" ">>, toks)) = <<>> THEN None
            ELSE OfCut(strip(join(<<" ">>, FirstSix(toks))))
    IN  OfTokens(BeforeStopToken(split(phrase)))

\* the label pattern: the first match whose phrase normalises
RECURSIVE FirstLabelled(_)
FirstLabelled(ms) ==
    IF ms = <<>> THEN None
    ELSE OrElse(_normalize_major_phrase(Head(ms)), FirstLabelled(Tail(ms)))

\* the degree pattern: the first match whose phrase normalises, with its degree
RECURSIVE FirstWithDegree(_)
FirstWithDegree(ms) ==
    LET WithDegree(jenjang, norm) ==
            IF norm = None THEN None ELSE Some(upper(jenjang) \o <<" ">> \o Val(norm))
    IN  IF ms = <<>> THEN None
        ELSE OrElse(WithDegree(Head(ms)[1], _normalize_major_phrase(Head(ms)[2])),
                    FirstWithDegree(Tail(ms)))

\* a variant with a default degree: a synonym found anywhere in a text
\* without label and degree is reported as S1
extract_jurusan_default_degree(txt) ==
    LET DefaultDegree(bare) ==
            IF bare = None THEN None ELSE Some(Chars("S1 ") \o Val(bare))
    IN  OrElse(FirstLabelled(findall1(RE_JURUSAN_LABEL[1], txt)),
               OrElse(FirstWithDegree(findall2(RE_JURUSAN_LABEL[2], txt)),
                      DefaultDegree(FirstSynonym(lower(txt), 1))))
extract_jurusan(txt) ==
    OrElse(FirstLabelled(findall1(RE_JURUSAN_LABEL[1], txt)),
           FirstWithDegree(findall2(RE_JURUSAN_LABEL[2], txt)))

(***************************************************************************)
(* Skills                                                                  *)
(***************************************************************************)
\* the light synonyms, in the order of the dictionary
SKILL_SYNONYM ==
    << <<"rest", "REST">>, <<"rest api", "REST">>, <<"node", "Nodejs">>,
       <<"node.js", "Nodejs">>, <<"adobe xd", "Adobe Xd">>, <<"c plus plus", "C++">>,
       <<"c sharp", "C#">> >>

SKILL_SET ==
    {"python", "java", "javascript", "typescript", "html", "css", "php", "ruby", "swift",
     "kotlin", "c++", "c#", "go", "react", "vue", "angular", "nodejs", "express", "django",
     "flask", "laravel",
     "mysql", "postgresql", "mongodb", "sqlite", "oracle", "redis",
     "flutter", "react native", "android studio", "xcode",
     "aws", "azure", "gcp", "docker", "kubernetes", "jenkins",
     "gitlab", "github", "bitbucket", "terraform", "ansible",
     "photoshop", "illustrator", "figma", "adobe xd", "canva", "coreldraw", "premiere",
     "after effects",
     "tableau", "power bi", "google analytics", "spss",
     "linux", "windows server", "macos", "git", "graphql", "rest", "microservices",
     "agile", "scrum", "jira", "trello", "notion"}

AnyChar == NotIn({})
SpaceOrColon == In(Whitespace \cup {":"})

SKILL_SECTIONS ==
    << \* (?is)(?:keahlian|keterampilan|kemampuan|skill[s]?|technical\s*skill[s]?)[\s:]*([\s\S]{0,600})
       Cat(<<Alt(<<LitI("keahlian"), LitI("keterampilan"), LitI("kemampuan"),
                   Cat(<<LitI("skill"), Opt(LitI("s"))>>),
                   Cat(<<LitI("technical"), Star(Ws), LitI("skill"), Opt(LitI("s"))>>)>>),
             Star(SpaceOrColon), Group(1, Rep(AnyChar, 0, 600))>>),
       \* (?is)(?:software|tool[s]?|teknologi|bahasa\s*pemrograman|programming\s*language[s]?)[\s:]*([\s\S]{0,400})
       Cat(<<Alt(<<LitI("software"),
                   Cat(<<LitI("tool"), Opt(LitI("s"))>>),
                   LitI("teknologi"),
                   Cat(<<LitI("bahasa"), Star(Ws), LitI("pemrograman")>>),
                   Cat(<<LitI("programming"), Star(Ws), LitI("language"), Opt(LitI("s"))>>)>>),
             Star(SpaceOrColon), Group(1, Rep(AnyChar, 0, 400))>>) >>

\* section_text += " " + m, over the matches
RECURSIVE SpacedConcat(_)
SpacedConcat(ms) == IF ms = <<>> THEN <<>> ELSE <<" ">> \o Head(ms) \o SpacedConcat(Tail(ms))

RECURSIVE ApplySynonyms(_, _)
ApplySynonyms(z, k) ==
    IF k > Len(SKILL_SYNONYM) THEN z
    ELSE ApplySynonyms(replace(z, Chars(SKILL_SYNONYM[k][1]), lower(Chars(SKILL_SYNONYM[k][2]))),
                       k + 1)

UpperCasedSkills == {"c++", "c#", "aws", "gcp", "css", "html", "sql"}

SkillName(kw) ==
    LET name == IF kw \in UpperCasedSkills THEN upper(Chars(kw)) ELSE title(Chars(kw))
    IN  IF Str(lower(name)) = "rest" THEN Chars("REST") ELSE name

\* ord(c), for the printable ASCII characters but the backquote
AsciiFrom32 ==
    Chars(" !\"#$%&'()*+,-./0123456789:;<=>?@ABCDEFGHIJKLMNOPQRSTUVWXYZ[\\]^_")
AsciiFrom97 == Chars("abcdefghijklmnopqrstuvwxyz{|}~")
Ord ==
    [c \in {AsciiFrom32[p] : p \in 1..Len(AsciiFrom32)}
            \cup {AsciiFrom97[p] : p \in 1..Len(AsciiFrom97)} |->
        IF \E p \in 1..Len(AsciiFrom32) : AsciiFrom32[p] = c
        THEN 31 + CHOOSE p \in 1..Len(AsciiFrom32) : AsciiFrom32[p] = c
        ELSE 96 + CHOOSE p \in 1..Len(AsciiFrom97) : AsciiFrom97[p] = c]

\* a < b on str
RECURSIVE StrLess(_, _)
StrLess(a, b) ==
    IF b = <<>> THEN FALSE
    ELSE IF a = <<>> THEN TRUE
    ELSE IF Head(a) # Head(b) THEN Ord[Head(a)] < Ord[Head(b)]
    ELSE StrLess(Tail(a), Tail(b))

\* sorted(found)
sorted(found) ==
    AsTuple([k \in 1..Cardinality(found) |->
                CHOOSE a \in found : Cardinality({b \in found : StrLess(b, a)}) = k - 1])

\* the scan zone is the text of the sections if there is any, else the
\* whole text in lower case; found are the names of the keywords that
\* occur in the zone after the synonyms are applied
_collect_skills_from_text(txt) ==
    LET ScanZone(section_text, low) == IF strip(section_text) # <<>> THEN section_text ELSE low
        Found(z) == {SkillName(kw) : kw \in {k \in SKILL_SET : Contains(Chars(k), z)}}
    IN  sorted(Found(ApplySynonyms(
            lower(ScanZone(SpacedConcat(findall1(SKILL_SECTIONS[1], txt))
                           \o SpacedConcat(findall1(SKILL_SECTIONS[2], txt)),
                           lower(txt))), 1)))

extract_skills(txt) == _collect_skills_from_text(txt)

(***************************************************************************)
(* PDF text                                                                *)
(*                                                                         *)
(* A PDF file is what pdfplumber makes of it: whether it opens, and for    *)
(* each page the text of extract_text() (t), the tables, the text of the   *)
(* tolerant extract_text (alt), the words, and the calls that raise on     *)
(* that page.  An empty string stands for None as well: both are falsy.    *)
(***************************************************************************)
Page(t, tables, alt, words, raises) ==
    [t |-> t, tables |-> tables, alt |-> alt, words |-> words, raises |-> raises]

\* " | ".join([str(c) if c else "" for c in row]) + "\n", over the rows
RECURSIVE JoinCells(_)
JoinCells(row) ==
    IF Len(row) = 1 THEN row[1] ELSE row[1] \o " | " \o JoinCells(Tail(row))
RECURSIVE RowsText(_)
RowsText(table) ==
    IF table = <<>> THEN ""
    ELSE (IF Head(table) # <<>> THEN JoinCells(Head(table)) \o "\n" ELSE "")
         \o RowsText(Tail(table))
RECURSIVE TablesText(_)
TablesText(tables) ==
    IF tables = <<>> THEN "" ELSE RowsText(Head(tables)) \o TablesText(Tail(tables))

RECURSIVE JoinWords(_)
JoinWords(ws) == IF Len(ws) = 1 THEN ws[1] ELSE ws[1] \o " " \o JoinWords(Tail(ws))

\* the body of the loop over the pages, from page k on; a raising
\* extract_text() leaves the loop with the text read so far
RECURSIVE PagesText(_, _, _)
PagesText(pages, k, txt) ==
    IF k > Len(pages) THEN txt
    ELSE LET page == pages[k]
             withText == IF page.t # "" THEN txt \o page.t \o "\n" ELSE txt
             withTables == IF "tables" \in page.raises THEN withText
                           ELSE withText \o TablesText(page.tables)
             withAlt == IF "alt" \notin page.raises /\ page.alt # ""
                        THEN withTables \o page.alt \o "\n" ELSE withTables
             withWords == IF "words" \notin page.raises /\ page.words # <<>>
                          THEN withAlt \o JoinWords(page.words) \o "\n" ELSE withAlt
         IN  IF "text" \in page.raises THEN txt
             ELSE IF page.t = "" /\ k = 1 THEN PagesText(pages, k + 1, withWords)
             ELSE PagesText(pages, k + 1, withTables)

extract_text_from_pdf(pdf) ==
    IF ~pdf.opens THEN "" ELSE PagesText(pdf.pages, 1, "")

(***************************************************************************)
(* Records                                                                 *)
(***************************************************************************)
\* a variant that leaves the major out of the required fields
missing_fields_ipk_only(ipk, jurusan) ==
    IF ipk = None THEN <<"IPK">> ELSE <<>>

\* the fields named missing, in the order of the tests
missing_fields(ipk, jurusan) ==
    (IF ipk = None THEN <<"IPK">> ELSE <<>>) \o (IF jurusan = None THEN <<"Jurusan">> ELSE <<>>)

RECURSIVE JoinStrings(_, _)
JoinStrings(sep, parts) ==
    IF parts = <<>> THEN ""
    ELSE IF Len(parts) = 1 THEN parts[1]
    ELSE parts[1] \o sep \o JoinStrings(sep, Tail(parts))

\* a variant that names the missing fields last to first
extraction_status_reversed(missing) ==
    IF missing # <<>>
    THEN "Partial - Missing: "
         \o JoinStrings(", ", AsTuple([k \in 1..Len(missing) |->
                                               missing[Len(missing) + 1 - k]]))
    ELSE "Success"

extraction_status(missing) ==
    IF missing # <<>> THEN "Partial - Missing: " \o JoinStrings(", ", missing) ELSE "Success"

\* a variant that drops the name as well
FailedRecord_nameless(name, date) ==
    [nama |-> "", ipk |-> None, jurusan |-> None, semester |-> None, skills |-> "",
     skill_count |-> 0, extraction_status |-> "Failed - No text extracted",
     extraction_date |-> date]

\* the record of a document without text
FailedRecord(name, date) ==
    [nama |-> name, ipk |-> None, jurusan |-> None, semester |-> None, skills |-> "",
     skill_count |-> 0, extraction_status |-> "Failed - No text extracted",
     extraction_date |-> date]

\* a variant that counts the characters of the joined skills
ExtractedRecord_counting_chars(name, ipk, jurusan, semester, skills, date) ==
    [nama |-> name, ipk |-> ipk, jurusan |-> jurusan, semester |-> semester,
     skills |-> IF skills # <<>> THEN JoinStrings(", ", skills) ELSE "",
     skill_count |-> Len(JoinStrings(", ", skills)),
     extraction_status |-> extraction_status(missing_fields(ipk, jurusan)),
     extraction_date |-> date]

\* the record of a document with text
ExtractedRecord(name, ipk, jurusan, semester, skills, date) ==
    [nama |-> name, ipk |-> ipk, jurusan |-> jurusan, semester |-> semester,
     skills |-> IF skills # <<>> THEN JoinStrings(", ", skills) ELSE "",
     skill_count |-> Len(skills),
     extraction_status |-> extraction_status(missing_fields(ipk, jurusan)),
     extraction_date |-> date]

\* the record of a document whose processing raised
ErrorRecord(name, message, date) ==
    [nama |-> name, ipk |-> None, jurusan |-> None, semester |-> None, skills |-> "",
     skill_count |-> 0, extraction_status |-> "Error: " \o message,
     extraction_date |-> date]

column_order ==
    <<"nama", "ipk", "jurusan", "semester", "skills", "skill_count", "extraction_status",
      "extraction_date">>

(***************************************************************************)
(* Sample inputs                                                           *)
(***************************************************************************)
MaxDocs == 2

NoPage == Page("", <<>>, "", <<>>, {})
TextPdf(t) == [opens |-> TRUE, pages |-> <<Page(t, <<>>, "", <<>>, {})>>]

PdfSamples ==
    << \* IPK and major, nothing else
       TextPdf("GPA 3,75 S1 Teknik Informatika"),
       \* IPK out of range, a major, a semester out of range
       TextPdf("IPK: 4.50 Prodi Sistem Informasi, semester 15"),
       \* no major, a semester and skills
       TextPdf("IPK 3.20 sem 3 tools: figma, python"),
       \* neither IPK nor major
       TextPdf("information systems, node.js"),
       \* a first page read through its tables and words, and a second
       \* page on which extract_text raises
       [opens |-> TRUE,
        pages |-> <<Page("", <<<<<<"IPK", "3.10">>, <<>>, <<"", "x">>>>>>, "",
                         <<"Jurusan", "Teknik", "Mesin">>, {"alt"}),
                    Page("semester 5", <<>>, "", <<>>, {"text"})>>],
       \* a scanned page: no text, no table, no word
       [opens |-> TRUE, pages |-> <<NoPage>>],
       \* a file that does not open
       [opens |-> FALSE, pages |-> <<>>] >>

NameSamples == <<"3. John_Doe - CV.pdf", "jane.PDF", "notes.txt">>

FaultMessages == {"[Errno 13] Permission denied"}

File(name, pdf) == [name |-> name, pdf |-> pdf]

FileSamples ==
    {File(NameSamples[1], PdfSamples[k]) : k \in 1..6}
    \cup {File(NameSamples[2], PdfSamples[7]), File(NameSamples[3], PdfSamples[1])}

SeqsUpTo(S, n) == UNION {[1..k -> S] : k \in 0..n}

(***************************************************************************)
(* The batch processor and the document pipeline                           *)
(***************************************************************************)
VARIABLES
    folder,        \* the folder: whether it exists, and its files in listdir order
    output_excel,  \* whether an output file was asked for
    pc,            \* where process_cv_folder is
    pdf_files,     \* the names of the PDF files
    i,             \* the number of the document in the loop
    results,       \* the records collected
    stage,         \* the state of the pipeline for the document
    nama,          \* extract_from_cv: the name
    text,          \* extract_from_cv: the text
    fields,        \* extract_from_cv: ipk, jurusan, semester, skills
    now,           \* the clock of extraction_date
    df,            \* the report returned
    excel,         \* the output file
    trace,         \* history: the pipeline states of the document
    history,       \* history: per record, its trace and text, or its fault
    arg,           \* function under test: its argument
    op,            \* function under test: which was applied
    out,           \* function under test: its result
    out2,          \* function under test: the result of applying it again
    csv_links,         \* download_cv: the unique values of the CV column
    log_file,          \* download_cv: the lines of the download log
    dl_pc,             \* download_cv: where main is
    downloaded_links,  \* download_cv: the links loaded from the log
    links,             \* download_cv: the links of the run
    link_no,           \* download_cv: the position of the loop in links
    success_count,     \* download_cv: the counters of the run
    fail_count,
    skipped_count,
    runs,              \* history: the number of runs started
    fetched,           \* history: the links whose download returned a file name
    refetched,         \* history: the links downloaded again after that
    attempted,         \* history: the links given to gdown.download in the run
    log_faults         \* history: whether reading or writing the log failed

batch_vars ==
    <<folder, output_excel, pc, pdf_files, i, results, stage, nama, text, fields, now,
      df, excel, trace, history>>
fn_vars == <<arg, op, out, out2>>
dl_vars ==
    <<csv_links, log_file, dl_pc, downloaded_links, links, link_no, success_count,
      fail_count, skipped_count, runs, fetched, refetched, attempted, log_faults>>
vars == <<folder, output_excel, pc, pdf_files, i, results, stage, nama, text, fields, now,
          df, excel, trace, history, arg, op, out, out2, csv_links, log_file, dl_pc,
          downloaded_links, links, link_no, success_count, fail_count, skipped_count, runs,
          fetched, refetched, attempted, log_faults>>

NoFields == [ipk |-> None, jurusan |-> None, semester |-> None, skills |-> <<>>]

\* f.lower().endswith(".pdf")
IsPdfName(name) ==
    LET cs == lower(Chars(name))
    IN  Len(cs) >= 4 /\ SubSeq(cs, Len(cs) - 3, Len(cs)) = Chars(".pdf")

RECURSIVE PdfFilesOf(_)
PdfFilesOf(files) ==
    IF files = <<>> THEN <<>>
    ELSE (IF IsPdfName(Head(files).name) THEN <<Head(files)>> ELSE <<>>)
         \o PdfFilesOf(Tail(files))

\* os.path.join(folder_path, pdf_file)
FolderPath == "cv"
PathOf(pdf_file) == FolderPath \o "/" \o pdf_file

FnIdle == arg = "" /\ op = "idle" /\ out = None /\ out2 = None

\* the download script before its first run, with an empty log
DownloadIdle ==
    /\ log_file = <<>>
    /\ dl_pc = "idle"
    /\ downloaded_links = {}
    /\ links = <<>>
    /\ link_no = 0
    /\ success_count = 0
    /\ fail_count = 0
    /\ skipped_count = 0
    /\ runs = 0
    /\ fetched = {}
    /\ refetched = {}
    /\ attempted = {}
    /\ log_faults = FALSE

BatchIdle ==
    /\ folder = [exists |-> FALSE, files |-> <<>>]
    /\ output_excel = FALSE
    /\ pc = "off"
    /\ pdf_files = <<>>
    /\ i = 0
    /\ results = <<>>
    /\ stage = "Idle"
    /\ nama = ""
    /\ text = ""
    /\ fields = NoFields
    /\ now = 0
    /\ df = None
    /\ excel = None
    /\ trace = <<>>
    /\ history = <<>>

Init ==
    /\ folder \in [exists : BOOLEAN, files : SeqsUpTo(FileSamples, MaxDocs)]
    /\ folder.exists \/ folder.files = <<>>
    /\ output_excel \in BOOLEAN
    /\ pc = "start"
    /\ pdf_files = <<>>
    /\ i = 0
    /\ results = <<>>
    /\ stage = "Idle"
    /\ nama = ""
    /\ text = ""
    /\ fields = NoFields
    /\ now = 0
    /\ df = None
    /\ excel = None
    /\ trace = <<>>
    /\ history = <<>>
    /\ FnIdle
    /\ csv_links = <<>>
    /\ DownloadIdle

\* if not os.path.exists(folder_path): raise FileNotFoundError
FolderNotFound ==
    /\ pc = "start"
    /\ ~folder.exists
    /\ pc' = "raised"
    /\ UNCHANGED <<folder, output_excel, pdf_files, i, results, stage, nama, text, fields,
                   now, df, excel, trace, history>>
    /\ UNCHANGED fn_vars
    /\ UNCHANGED dl_vars

\* if not pdf_files: return pd.DataFrame()
NoPdfFiles ==
    /\ pc = "start"
    /\ folder.exists
    /\ PdfFilesOf(folder.files) = <<>>
    /\ pdf_files' = <<>>
    /\ df' = Some([columns |-> <<>>, rows |-> <<>>])
    /\ pc' = "done"
    /\ UNCHANGED <<folder, output_excel, i, results, stage, nama, text, fields, now, excel,
                   trace, history>>
    /\ UNCHANGED fn_vars
    /\ UNCHANGED dl_vars

\* results = []; the loop starts
StartBatch ==
    /\ pc = "start"
    /\ folder.exists
    /\ PdfFilesOf(folder.files) # <<>>
    /\ pdf_files' = PdfFilesOf(folder.files)
    /\ results' = <<>>
    /\ i' = 1
    /\ pc' = "loop"
    /\ UNCHANGED <<folder, output_excel, stage, nama, text, fields, now, df, excel, trace,
                   history>>
    /\ UNCHANGED fn_vars
    /\ UNCHANGED dl_vars

\* the next document enters extract_from_cv, which takes the name
BeginDocument ==
    /\ pc = "loop"
    /\ stage = "Idle"
    /\ i <= Len(pdf_files)
    /\ nama' = Str(clean_person_name_from_filename(Chars(PathOf(pdf_files[i].name))))
    /\ stage' = "Init"
    /\ trace' = <<"Init">>
    /\ UNCHANGED <<folder, output_excel, pc, pdf_files, i, results, text, fields, now, df,
                   excel, history>>
    /\ UNCHANGED fn_vars
    /\ UNCHANGED dl_vars

\* text = self.extract_text_from_pdf(pdf_path)
AcquireText ==
    /\ pc = "loop"
    /\ stage = "Init"
    /\ text' = extract_text_from_pdf(pdf_files[i].pdf)
    /\ stage' = IF text' = "" THEN "TextUnavailable" ELSE "TextAcquired"
    /\ trace' = Append(trace, stage')
    /\ UNCHANGED <<folder, output_excel, pc, pdf_files, i, results, nama, fields, now, df,
                   excel, history>>
    /\ UNCHANGED fn_vars
    /\ UNCHANGED dl_vars

\* if not text: return the Failed record, which the loop appends
ReturnFailed ==
    /\ pc = "loop"
    /\ stage = "TextUnavailable"
    /\ results' = Append(results, FailedRecord(nama, now))
    /\ history' = Append(history, [trace |-> trace, text |-> text, fault |-> None])
    /\ now' = now + 1
    /\ i' = i + 1
    /\ stage' = "Idle"
    /\ nama' = ""
    /\ text' = ""
    /\ fields' = NoFields
    /\ trace' = <<>>
    /\ UNCHANGED <<folder, output_excel, pc, pdf_files, df, excel>>
    /\ UNCHANGED fn_vars
    /\ UNCHANGED dl_vars

\* the four extractors, each on the text alone
ExtractFields ==
    /\ pc = "loop"
    /\ stage = "TextAcquired"
    /\ fields' = [ipk |-> extract_ipk(Chars(text)),
                  jurusan |-> StrOf(extract_jurusan(Chars(text))),
                  semester |-> extract_semester(Chars(text)),
                  skills |-> StrsOf(extract_skills(Chars(text)))]
    /\ stage' = "FieldsExtracted"
    /\ trace' = Append(trace, "FieldsExtracted")
    /\ UNCHANGED <<folder, output_excel, pc, pdf_files, i, results, nama, text, now, df,
                   excel, history>>
    /\ UNCHANGED fn_vars
    /\ UNCHANGED dl_vars

\* the status is computed and the record returned, which the loop appends
Classify ==
    /\ pc = "loop"
    /\ stage = "FieldsExtracted"
    /\ results' = Append(results,
                         ExtractedRecord(nama, fields.ipk, fields.jurusan, fields.semester,
                                         fields.skills, now))
    /\ history' = Append(history,
                         [trace |-> Append(trace, "Classified"), text |-> text,
                          fault |-> None])
    /\ now' = now + 1
    /\ i' = i + 1
    /\ stage' = "Idle"
    /\ nama' = ""
    /\ text' = ""
    /\ fields' = NoFields
    /\ trace' = <<>>
    /\ UNCHANGED <<folder, output_excel, pc, pdf_files, df, excel>>
    /\ UNCHANGED fn_vars
    /\ UNCHANGED dl_vars

\* a variant in which the exception leaves the loop: the report is made
\* of the records collected so far
Fault_aborting(message) ==
    /\ pc = "loop"
    /\ stage \in {"Init", "TextAcquired", "TextUnavailable", "FieldsExtracted"}
    /\ df' = Some([columns |-> column_order, rows |-> results])
    /\ pc' = "done"
    /\ stage' = "Idle"
    /\ nama' = ""
    /\ text' = ""
    /\ fields' = NoFields
    /\ trace' = <<>>
    /\ UNCHANGED <<folder, output_excel, pdf_files, i, results, now, excel, history>>
    /\ UNCHANGED fn_vars
    /\ UNCHANGED dl_vars

\* extract_from_cv raises: the loop appends an Error record instead
Fault(message) ==
    /\ pc = "loop"
    /\ stage \in {"Init", "TextAcquired", "TextUnavailable", "FieldsExtracted"}
    /\ results' = Append(results,
                         ErrorRecord(Str(clean_person_name_from_filename(
                                             Chars(pdf_files[i].name))),
                                     message, now))
    /\ history' = Append(history, [trace |-> <<>>, text |-> "", fault |-> Some(message)])
    /\ now' = now + 1
    /\ i' = i + 1
    /\ stage' = "Idle"
    /\ nama' = ""
    /\ text' = ""
    /\ fields' = NoFields
    /\ trace' = <<>>
    /\ UNCHANGED <<folder, output_excel, pc, pdf_files, df, excel>>
    /\ UNCHANGED fn_vars
    /\ UNCHANGED dl_vars

\* a variant that empties the collection once the table is made
AssembleReport_clearing ==
    /\ pc = "loop"
    /\ stage = "Idle"
    /\ i > Len(pdf_files)
    /\ df' = Some([columns |-> column_order, rows |-> results])
    /\ excel' = IF output_excel THEN df' ELSE excel
    /\ results' = <<>>
    /\ pc' = "done"
    /\ UNCHANGED <<folder, output_excel, pdf_files, i, stage, nama, text, fields, now, trace,
                   history>>
    /\ UNCHANGED fn_vars
    /\ UNCHANGED dl_vars

\* after the loop: the table in column order, written out when asked for
AssembleReport ==
    /\ pc = "loop"
    /\ stage = "Idle"
    /\ i > Len(pdf_files)
    /\ df' = Some([columns |-> column_order, rows |-> results])
    /\ excel' = IF output_excel THEN df' ELSE excel
    /\ pc' = "done"
    /\ UNCHANGED <<folder, output_excel, pdf_files, i, results, stage, nama, text, fields,
                   now, trace, history>>
    /\ UNCHANGED fn_vars
    /\ UNCHANGED dl_vars

Next ==
    \/ FolderNotFound
    \/ NoPdfFiles
    \/ StartBatch
    \/ BeginDocument
    \/ AcquireText
    \/ ReturnFailed
    \/ ExtractFields
    \/ Classify
    \/ \E message \in FaultMessages : Fault(message)
    \/ AssembleReport

Spec == Init /\ [][Next]_vars

(***************************************************************************)
(* Properties of the batch processor and the document pipeline             *)
(***************************************************************************)
\* the records that extract_from_cv returned, by their place in results
Returned == {k \in 1..Len(results) : history[k].fault = None}
\* those among them of a document with text
Extracted == {k \in Returned : history[k].text # ""}

\* the name that extract_from_cv derives for the k-th document
DerivedName(k) == Str(clean_person_name_from_filename(Chars(PathOf(pdf_files[k].name))))

\* C1: every record returned by extract_from_cv has the status "Success"
\* exactly when both ipk and jurusan are present; two records of documents
\* with text that agree on which of ipk and jurusan are present have the
\* same status, whatever their semester and skills are.
C1_SuccessIffIpkAndJurusan ==
    /\ \A k \in Returned :
          results[k].extraction_status = "Success"
              <=> (results[k].ipk # None /\ results[k].jurusan # None)
    /\ \A j, k \in Extracted :
          ((results[j].ipk = None) = (results[k].ipk = None)
              /\ (results[j].jurusan = None) = (results[k].jurusan = None))
          => results[j].extraction_status = results[k].extraction_status

\* a Success record without semester and skills next to a record that has
\* both and is not Success
C1_Witness ==
    \E j, k \in Extracted :
        /\ results[j].extraction_status = "Success"
        /\ results[j].semester = None
        /\ results[j].skill_count = 0
        /\ results[k].extraction_status # "Success"
        /\ results[k].semester # None
        /\ results[k].skill_count > 0

\* C2 as stated: a missing ipk is named "GPA" in the Partial status.
C2_NamesGPA ==
    \A k \in Extracted :
        /\ (results[k].ipk = None /\ results[k].jurusan # None)
              => results[k].extraction_status = "Partial - Missing: GPA"
        /\ (results[k].ipk # None /\ results[k].jurusan = None)
              => results[k].extraction_status = "Partial - Missing: Jurusan"
        /\ (results[k].ipk = None /\ results[k].jurusan = None)
              => results[k].extraction_status = "Partial - Missing: GPA, Jurusan"

\* C2, amended: for a document with text, when a required field is missing
\* the status is "Partial - Missing: " followed by exactly the missing
\* required fields in the order IPK, Jurusan: "IPK" alone, "Jurusan" alone,
\* or "IPK, Jurusan"; semester and skills are never named.
C2_NamesMissingInOrder ==
    \A k \in Extracted :
        /\ (results[k].ipk = None /\ results[k].jurusan # None)
              => results[k].extraction_status = "Partial - Missing: IPK"
        /\ (results[k].ipk # None /\ results[k].jurusan = None)
              => results[k].extraction_status = "Partial - Missing: Jurusan"
        /\ (results[k].ipk = None /\ results[k].jurusan = None)
              => results[k].extraction_status = "Partial - Missing: IPK, Jurusan"

\* each of the three Partial cases has happened, the last one for a
\* document without a semester
C2_Witness ==
    /\ \E k \in Extracted : results[k].ipk = None /\ results[k].jurusan = None
                            /\ results[k].semester = None
    /\ \E k \in Extracted : (results[k].ipk = None) # (results[k].jurusan = None)

\* C3: a document's pipeline returns the status "Failed - No text
\* extracted" exactly when extract_text_from_pdf returned the empty text;
\* it then went Init -> TextUnavailable and no further, the record has no
\* ipk, jurusan or semester, empty skills and skill_count 0, and its nama
\* is the name derived from the file name.  No extractor runs on an empty
\* text.
C3_FailedIffNoText ==
    /\ \A k \in Returned :
          /\ results[k].extraction_status = "Failed - No text extracted"
                <=> history[k].text = ""
          /\ history[k].text = ""
                => /\ history[k].trace = <<"Init", "TextUnavailable">>
                   /\ results[k].ipk = None
                   /\ results[k].jurusan = None
                   /\ results[k].semester = None
                   /\ results[k].skills = ""
                   /\ results[k].skill_count = 0
                   /\ results[k].nama = DerivedName(k)
          /\ history[k].text # ""
                => history[k].trace = <<"Init", "TextAcquired", "FieldsExtracted", "Classified">>
    /\ \A k \in 1..Len(results) :
          history[k].fault # None => results[k].extraction_status # "Failed - No text extracted"
    /\ stage = "TextUnavailable" => text = "" /\ fields = NoFields
    /\ stage \in {"TextAcquired", "FieldsExtracted"} => text # ""

\* a Failed record with a name, of a file that opens
C3_Witness ==
    \E k \in Returned :
        /\ results[k].extraction_status = "Failed - No text extracted"
        /\ results[k].nama = "John Doe"
        /\ pdf_files[k].pdf.opens

\* what the extractors find in the k-th document
TextOf(k) == extract_text_from_pdf(pdf_files[k].pdf)

\* C4: a batch over n PDF files ends with a report of exactly n records,
\* the k-th of them made from the k-th file; where the pipeline raised the
\* record is an Error record with the fault's message, the name derived
\* from the file name and no extracted field, and the documents after it
\* are processed all the same.  The loop never leaves a document out:
\* while it runs, the documents before the current one have their record.
C4_OneRecordPerDocument ==
    /\ pc = "loop" => i = Len(results) + 1 /\ i <= Len(pdf_files) + 1
    /\ Len(history) = Len(results)
    /\ \A k \in 1..Len(results) :
          history[k].fault # None =>
              results[k] = [nama |-> results[k].nama, ipk |-> None, jurusan |-> None,
                            semester |-> None, skills |-> "", skill_count |-> 0,
                            extraction_status |-> "Error: " \o Val(history[k].fault),
                            extraction_date |-> results[k].extraction_date]
    /\ (pc = "done" /\ pdf_files # <<>>) =>
          /\ df # None
          /\ Val(df).rows = results
          /\ Len(results) = Len(pdf_files)
          /\ \A k \in 1..Len(results) :
                /\ results[k].nama = DerivedName(k)
                /\ history[k].fault = None =>
                      /\ history[k].text = TextOf(k)
                      /\ SubSeq(results[k].extraction_status, 1, 5) # "Error"
                      /\ history[k].text # "" =>
                            results[k].ipk = extract_ipk(Chars(TextOf(k)))

\* a finished batch whose first document raised and whose last document
\* has a Success record
C4_Witness ==
    /\ pc = "done"
    /\ Len(results) = MaxDocs
    /\ history[1].fault # None
    /\ history[Len(results)].fault = None
    /\ results[Len(results)].extraction_status = "Success"

\* the names serialized in a skills column
SkillNamesIn(column) ==
    LET Between(cs, cuts) ==
            AsTuple([k \in 1..(Len(cuts) + 1) |->
                        Str(SubSeq(cs, IF k = 1 THEN 1 ELSE cuts[k - 1] + 2,
                                       IF k = Len(cuts) + 1 THEN Len(cs) ELSE cuts[k] - 1))])
        NamesOf(cs) ==
            Between(cs, Ascending({q \in 1..(Len(cs) - 1) : cs[q] = "," /\ cs[q + 1] = " "}))
    IN  IF column = "" THEN <<>> ELSE NamesOf(Chars(column))

\* the names a skill can be reported under
CanonicalSkillNames == {Str(SkillName(kw)) : kw \in SKILL_SET}

\* number is the number of the names, which are distinct and canonical
CountsNames(number, names) ==
    /\ number = Len(names)
    /\ Cardinality({names[j] : j \in 1..Len(names)}) = Len(names)
    /\ \A j \in 1..Len(names) : names[j] \in CanonicalSkillNames

\* C8: in every record collected (Success, Partial, Failed or Error) the
\* skills column is a ", "-joined list of distinct canonical skill names
\* and skill_count is the number of names in it; skill_count is 0 exactly
\* when skills is the empty string.
C8_SkillCountIsNumberOfSkills ==
    \A k \in 1..Len(results) :
        /\ CountsNames(results[k].skill_count, SkillNamesIn(results[k].skills))
        /\ results[k].skill_count = 0 <=> results[k].skills = ""

\* a record with several skills next to a record with none
C8_Witness ==
    \E j, k \in 1..Len(results) :
        /\ results[j].skill_count >= 2
        /\ results[j].skills # ""
        /\ results[k].skill_count = 0

\* C9: the collection of records only grows, by one record per document:
\* every step leaves the records collected so far in place and unchanged,
\* a step adds at most one record, namely the record of the current
\* document when its pipeline returns or raises, and the report is made of
\* the records as collected.
C9_AppendOnly ==
    [][/\ Len(results') >= Len(results)
       /\ SubSeq(results', 1, Len(results)) = results
       /\ Len(results') <= Len(results) + 1
       /\ Len(results') = Len(results) + 1 =>
             /\ pc = "loop"
             /\ stage # "Idle"
             /\ Len(results') = i
             /\ i' = i + 1
       /\ (df' # df /\ pdf_files' # <<>>) => Val(df').rows = results
      ]_vars

\* a finished batch in which a fault came after a record was collected
C9_Witness ==
    /\ pc = "done"
    /\ Len(results) >= 2
    /\ history[1].fault = None
    /\ history[2].fault # None

(***************************************************************************)
(* The name cleaner on its own: a file name is cleaned, and the result is  *)
(* cleaned again                                                           *)
(***************************************************************************)
MaxNameParts == 3

NameParts ==
    <<"John Doe", "3. John_Doe", "Jane", " - ", " & ", ":", "Portfolio", " cv2", "CV">>

\* the strings of the parts numbered in ns, one after the other
RECURSIVE Concat(_, _)
Concat(parts, ns) ==
    IF ns = <<>> THEN "" ELSE parts[Head(ns)] \o Concat(parts, Tail(ns))

NameInputs ==
    {Concat(NameParts, ns) \o ".pdf" :
        ns \in SeqsUpTo(1..Len(NameParts), MaxNameParts) \ {<<>>}}

InitName ==
    /\ BatchIdle
    /\ csv_links = <<>>
    /\ DownloadIdle
    /\ arg \in NameInputs
    /\ op = "start"
    /\ out = None
    /\ out2 = None

CleanName ==
    /\ op = "start"
    /\ out' = Some(Str(clean_person_name_from_filename(Chars(arg))))
    /\ op' = "cleaned"
    /\ UNCHANGED <<arg, out2>>
    /\ UNCHANGED batch_vars
    /\ UNCHANGED dl_vars

CleanNameAgain ==
    /\ op = "cleaned"
    /\ out2' = Some(Str(clean_person_name_from_filename(Chars(Val(out)))))
    /\ op' = "cleaned twice"
    /\ UNCHANGED <<arg, out>>
    /\ UNCHANGED batch_vars
    /\ UNCHANGED dl_vars

NextName == CleanName \/ CleanNameAgain

SpecName == InitName /\ [][NextName]_vars

\* C7: cleaning a cleaned name gives it back unchanged.
C7_Idempotent ==
    /\ op = "cleaned twice" => out2 = out
    /\ (op = "cleaned" /\ arg = "3. John_Doe - CV.pdf") => out = Some("John Doe")

\* the truncation delimiters in a stem: a colon, an ampersand, or a
\* hyphen between two whitespace characters
DelimitersIn(stem) ==
    {q \in 1..Len(stem) :
        \/ stem[q] \in {":", "&"}
        \/ /\ stem[q] = "-"
           /\ q > 1 /\ q < Len(stem)
           /\ stem[q - 1] \in Whitespace /\ stem[q + 1] \in Whitespace}

\* the number of maximal runs of letters
LetterRuns(cs) ==
    Cardinality({q \in 1..Len(cs) : cs[q] \in Letters /\ (q = 1 \/ cs[q - 1] \notin Letters)})

\* name has no more words than the stem has runs of letters before the
\* first of the cuts
NoLongerThanLeftOf(name, stem, cuts) ==
    cuts # {} => Len(split(name)) <= LetterRuns(SubSeq(stem, 1, Least(cuts) - 1))
MadeOfLeftSegment(name, stem) == NoLongerThanLeftOf(name, stem, DelimitersIn(stem))

\* C10: when the stem has a delimiter the name is made of the segment to
\* its left only, so it has no more words than that segment has runs of
\* letters; "John Doe - Portfolio" gives "John Doe".
C10_KeepsLeftSegment ==
    /\ op = "cleaned" => MadeOfLeftSegment(Chars(Val(out)), splitext_root(basename(Chars(arg))))
    /\ (op = "cleaned" /\ arg = "John Doe - Portfolio.pdf") => out = Some("John Doe")

(***************************************************************************)
(* The extractors of IPK, semester and major on their own: one of them is  *)
(* applied to a text                                                       *)
(***************************************************************************)
MaxTextParts == 2

IpkParts ==
    <<"IPK: 5.00", "IPK: 4.50", "GPA 3,75", "ipk 1.99", "3.256/4.00",
      "Indeks Prestasi Kumulatif - 2.00">>
SemParts == <<"semester 15", "semester 6", "sem: 12", "7th sem", "smt 2">>
MajorParts ==
    <<"information systems", "Jurusan:", "S1", "Prodi Teknik Informatika,", "universitas",
      "ipa", "d3 DKV\n", "Akuntansi">>

\* the strings of the parts numbered in ns, with a space in between
SpacedParts(parts, ns) == JoinStrings(" ", AsTuple([k \in 1..Len(ns) |-> parts[ns[k]]]))

TextsOf(parts) ==
    {SpacedParts(parts, ns) : ns \in SeqsUpTo(1..Len(parts), MaxTextParts) \ {<<>>}}

TextInputs == TextsOf(IpkParts) \cup TextsOf(SemParts) \cup TextsOf(MajorParts)

InitText ==
    /\ BatchIdle
    /\ csv_links = <<>>
    /\ DownloadIdle
    /\ arg \in TextInputs
    /\ op = "start"
    /\ out = None
    /\ out2 = None

ApplyIpk ==
    /\ op = "start"
    /\ out' = extract_ipk(Chars(arg))
    /\ op' = "ipk"
    /\ UNCHANGED <<arg, out2>>
    /\ UNCHANGED batch_vars
    /\ UNCHANGED dl_vars

ApplySemester ==
    /\ op = "start"
    /\ out' = extract_semester(Chars(arg))
    /\ op' = "semester"
    /\ UNCHANGED <<arg, out2>>
    /\ UNCHANGED batch_vars
    /\ UNCHANGED dl_vars

ApplyJurusan ==
    /\ op = "start"
    /\ out' = StrOf(extract_jurusan(Chars(arg)))
    /\ op' = "jurusan"
    /\ UNCHANGED <<arg, out2>>
    /\ UNCHANGED batch_vars
    /\ UNCHANGED dl_vars

NextText == ApplyIpk \/ ApplySemester \/ ApplyJurusan

SpecText == InitText /\ [][NextText]_vars

\* the numbers that the IPK patterns capture in a text, in thousandths, in
\* the order of the cascade: pattern by pattern, left to right
IpkValues(ms) == AsTuple([k \in 1..Len(ms) |-> Thousandths(ReplaceChar(ms[k], ",", "."))])
IpkCandidates(txt) ==
    IpkValues(findall1(RE_IPK_NEAR[1], txt) \o findall1(RE_IPK_NEAR[2], txt)
              \o findall1(RE_IPK_NEAR[3], txt) \o findall1(RE_IPK_NEAR[4], txt))

\* the numbers that the semester patterns capture in a text
SemValues(ms) == AsTuple([k \in 1..Len(ms) |-> int(ms[k])])
SemCandidates(txt) ==
    SemValues(findall1(RE_SEM_NEAR[1], txt) \o findall1(RE_SEM_NEAR[2], txt)
              \o findall1(RE_SEM_NEAR[3], txt))

\* the candidates within [lo, hi]
Within(cands, lo, hi) == {k \in 1..Len(cands) : lo <= cands[k] /\ cands[k] <= hi}
\* r, in hundredths, is nothing when no candidate is within the range and
\* else the first candidate within it, rounded
IsFirstIpk(r, cands, within) ==
    /\ r # None => 200 <= Val(r) /\ Val(r) <= 400
    /\ r = None <=> within = {}
    /\ r # None =>
          /\ Val(r) * 10 - cands[Least(within)] <= 5
          /\ cands[Least(within)] - Val(r) * 10 <= 5
IsIpkOf(r, cands) == IsFirstIpk(r, cands, Within(cands, 2000, 4000))
IsFirstSem(r, cands, within) ==
    /\ r # None => 1 <= Val(r) /\ Val(r) <= 12
    /\ r = None <=> within = {}
    /\ r # None => Val(r) = cands[Least(within)]
IsSemOf(r, cands) == IsFirstSem(r, cands, Within(cands, 1, 12))
\* the first candidate is outside the range and is not the only one
FirstPassedOver(cands) == Len(cands) >= 2 /\ (cands[1] < 2000 \/ cands[1] > 4000)

\* C5: extract_ipk returns nothing or a value of [2.00, 4.00] (here in
\* hundredths), extract_semester nothing or an integer of [1, 12].  A
\* captured number outside the range is passed over and the next one, of
\* the same or of a later pattern, is tried: the result is the first
\* captured number within the range, rounded, and nothing is returned only
\* when no captured number is within the range.  "IPK: 5.00" and
\* "semester 15" give nothing.
C5_ValuesInRange ==
    /\ op = "ipk" =>
          /\ IsIpkOf(out, IpkCandidates(Chars(arg)))
          /\ arg = "IPK: 5.00" => out = None
    /\ op = "semester" =>
          /\ IsSemOf(out, SemCandidates(Chars(arg)))
          /\ arg = "semester 15" => out = None

\* an IPK found after a captured number outside the range was passed over
C5_Witness ==
    /\ op = "ipk"
    /\ out # None
    /\ FirstPassedOver(IpkCandidates(Chars(arg)))

\* does one of the words occur in the text, whatever the case
OccursIn(words, txt) == \E w \in words : Contains(Chars(w), lower(Chars(txt)))

LabelWords == {"jurusan", "prodi", "program", "department"}
DegreeTokens == {"s1", "s2", "s3", "d1", "d2", "d3", "d4"}
SynonymPhrases == {MAJOR_NORMALIZE[k][1] : k \in 1..Len(MAJOR_NORMALIZE)}

\* C6 as stated: a text with the phrase "information systems" and no
\* degree token has the major "S1 Sistem Informasi", and the major is
\* absent only from a text without any synonym phrase.
C6_DefaultDegree ==
    op = "jurusan" =>
        /\ (OccursIn({"information systems"}, arg) /\ ~OccursIn(DegreeTokens, arg))
              => out = Some("S1 Sistem Informasi")
        /\ out = None => ~OccursIn(SynonymPhrases, arg)

\* C6, amended: extract_jurusan has no default degree.  A text without a
\* label (Jurusan, Program Studi, Prodi, Study Program, Department) and
\* without a degree token (S1..S3, D1..D4) has no major, even when a
\* synonym phrase occurs in it: "information systems" gives nothing.  A
\* major found without a label is "<DEGREE> <name>" with the degree token
\* of the text in upper case; a synonym phrase after a label gives the
\* canonical name alone ("Jurusan: information systems" gives "Sistem
\* Informasi"), after a degree token the canonical name with that degree
\* ("S1 information systems" gives "S1 Sistem Informasi").
C6_LabelOrDegreeAnchored ==
    op = "jurusan" =>
        /\ (~OccursIn(LabelWords, arg) /\ ~OccursIn(DegreeTokens, arg)) => out = None
        /\ (out # None /\ ~OccursIn(LabelWords, arg)) =>
              /\ Len(Val(out)) > 3
              /\ Str(lower(Chars(SubSeq(Val(out), 1, 2)))) \in DegreeTokens
              /\ SubSeq(Val(out), 1, 2) = Str(upper(Chars(SubSeq(Val(out), 1, 2))))
              /\ SubSeq(Val(out), 3, 3) = " "
        /\ arg = "information systems" => out = None
        /\ arg = "Jurusan: information systems" => out = Some("Sistem Informasi")
        /\ arg = "S1 information systems" => out = Some("S1 Sistem Informasi")

\* the extractor has run on a text with a synonym phrase, without label
\* and degree token
C6_Witness ==
    /\ op = "jurusan"
    /\ OccursIn(SynonymPhrases, arg)
    /\ ~OccursIn(LabelWords, arg)
    /\ ~OccursIn(DegreeTokens, arg)
    /\ out = None

(***************************************************************************)
(* The download script (download_cv.py): runs of main over the same link   *)
(* list.  The log is a sequence of lines; a missing log is an empty one.   *)
(* gdown.download returns a file name, returns nothing or raises.          *)
(***************************************************************************)
MaxLinks == 2
MaxRuns == 2

LinkSamples ==
    <<"https://drive.google.com/a", "https://drive.google.com/a ",
      "https://drive.google.com/b", "http://example.com/c", " ">>

\* str(link).strip()
link_str(link) == Str(strip(Chars(link)))

\* not (not link_str or 'drive.google.com' not in link_str)
IsValidLink(ln) == ln # "" /\ Contains(Chars("drive.google.com"), Chars(ln))

\* the set of the stripped lines among the first n lines of the log: all
\* of them, or those read before the read failed
load_downloaded_links(lines, n) == {link_str(lines[k]) : k \in 1..n}

\* the log after add_to_log: one more line, unless the write failed
add_to_log(link, lines, written) == IF written THEN Append(lines, link) ELSE lines

\* df[COLUMN_NAME].dropna().unique(): a sequence of distinct values
InitDownload ==
    /\ BatchIdle
    /\ FnIdle
    /\ csv_links \in {ls \in SeqsUpTo({LinkSamples[k] : k \in 1..Len(LinkSamples)}, MaxLinks) :
                         \A j, k \in 1..Len(ls) : j # k => ls[j] # ls[k]}
    /\ DownloadIdle

\* main up to the loop: the log is loaded, the links are read, the
\* counters are zero
StartRun ==
    /\ dl_pc = "idle"
    /\ runs < MaxRuns
    /\ \E n \in 0..Len(log_file) :
          /\ downloaded_links' = load_downloaded_links(log_file, n)
          /\ log_faults' = (log_faults \/ n < Len(log_file))
    /\ links' = csv_links
    /\ link_no' = 1
    /\ success_count' = 0
    /\ fail_count' = 0
    /\ skipped_count' = 0
    /\ runs' = runs + 1
    /\ attempted' = {}
    /\ dl_pc' = "loop"
    /\ UNCHANGED <<csv_links, log_file, fetched, refetched>>
    /\ UNCHANGED batch_vars
    /\ UNCHANGED fn_vars

\* a link that is empty or not of drive.google.com: continue
SkipInvalid ==
    /\ dl_pc = "loop"
    /\ link_no <= Len(links)
    /\ ~IsValidLink(link_str(links[link_no]))
    /\ link_no' = link_no + 1
    /\ UNCHANGED <<csv_links, log_file, dl_pc, downloaded_links, links, success_count,
                   fail_count, skipped_count, runs, fetched, refetched, attempted,
                   log_faults>>
    /\ UNCHANGED batch_vars
    /\ UNCHANGED fn_vars

\* if link_str in downloaded_links: counted as skipped and as success
SkipLogged ==
    /\ dl_pc = "loop"
    /\ link_no <= Len(links)
    /\ IsValidLink(link_str(links[link_no]))
    /\ link_str(links[link_no]) \in downloaded_links
    /\ skipped_count' = skipped_count + 1
    /\ success_count' = success_count + 1
    /\ link_no' = link_no + 1
    /\ UNCHANGED <<csv_links, log_file, dl_pc, downloaded_links, links, fail_count, runs,
                   fetched, refetched, attempted, log_faults>>
    /\ UNCHANGED batch_vars
    /\ UNCHANGED fn_vars

\* gdown.download on a link that is not in downloaded_links; a file name
\* is logged and counted as success, nothing or an exception as failure
Download(outcome, written) ==
    /\ dl_pc = "loop"
    /\ link_no <= Len(links)
    /\ IsValidLink(link_str(links[link_no]))
    /\ link_str(links[link_no]) \notin downloaded_links
    /\ outcome # "name" => written
    /\ attempted' = attempted \cup {link_str(links[link_no])}
    /\ refetched' = IF link_str(links[link_no]) \in fetched
                    THEN refetched \cup {link_str(links[link_no])} ELSE refetched
    /\ IF outcome = "name"
       THEN /\ log_file' = add_to_log(link_str(links[link_no]), log_file, written)
            /\ log_faults' = (log_faults \/ ~written)
            /\ fetched' = fetched \cup {link_str(links[link_no])}
            /\ success_count' = success_count + 1
            /\ UNCHANGED fail_count
       ELSE /\ fail_count' = fail_count + 1
            /\ UNCHANGED <<log_file, log_faults, fetched, success_count>>
    /\ link_no' = link_no + 1
    /\ UNCHANGED <<csv_links, dl_pc, downloaded_links, links, skipped_count, runs>>
    /\ UNCHANGED batch_vars
    /\ UNCHANGED fn_vars

\* the loop is over: the summary is printed and main returns
FinishRun ==
    /\ dl_pc = "loop"
    /\ link_no > Len(links)
    /\ dl_pc' = "idle"
    /\ UNCHANGED <<csv_links, log_file, downloaded_links, links, link_no, success_count,
                   fail_count, skipped_count, runs, fetched, refetched, attempted,
                   log_faults>>
    /\ UNCHANGED batch_vars
    /\ UNCHANGED fn_vars

NextDownload ==
    \/ StartRun
    \/ SkipInvalid
    \/ SkipLogged
    \/ \E outcome \in {"name", "none", "raise"}, written \in BOOLEAN :
          Download(outcome, written)
    \/ FinishRun

SpecDownload == InitDownload /\ [][NextDownload]_vars

\* the valid links of the list, as the loop sees them
ValidLinks == {ln \in {link_str(csv_links[k]) : k \in 1..Len(csv_links)} : IsValidLink(ln)}

\* every line of the log is a link whose download returned a file name
LoggedAfterDownload == \A k \in 1..Len(log_file) : log_file[k] \in fetched

\* after a run, every valid link that was not in the log when the run
\* started has been given to gdown.download in that run
UnloggedAttempted ==
    (dl_pc = "idle" /\ runs > 0) => (ValidLinks \ downloaded_links) \subseteq attempted

\* C11: as long as the log is read and written without failure, a link is
\* in the log only after its download returned a file name, no link whose
\* download returned a file name is given to gdown.download again, in the
\* same run or in a later one, and every run attempts every valid link
\* that is not in the log.
C11_LoggedOnceAndRetried ==
    /\ LoggedAfterDownload
    /\ ~log_faults => (refetched = {} /\ UnloggedAttempted)
====
